---- MODULE Spec2Model ----
(***************************************************************************)
(* FakeNetworkPipe (webrtc/video_engine/test/libvietest/testbed/           *)
(* fake_network_pipe.cc): a capacity-limited link queue followed by a      *)
(* fixed extra-delay queue, driven by SendPacket and NetworkProcess; and   *)
(* Stats and the packet filters of the bandwidth-estimator test framework  *)
(* (webrtc/modules/remote_bitrate_estimator/test/bwe_test_framework.h).    *)
(*                                                                         *)
(* Spec        : every call of the pipe is one step (each method body runs *)
(*               under link_cs_), with the history of every packet.        *)
(* SpecLive    : Spec for one pipe, with NetworkProcess called again and   *)
(*               again and the clock running.                              *)
(* SpecThreads : a producer thread calling SendPacket and a poll thread    *)
(*               calling NetworkProcess, PercentageLoss and AverageDelay,  *)
(*               statement by statement, with link_cs_ as a lock.          *)
(* SpecStats   : Push and the getters of a Stats<double>.                  *)
(* SpecFilters : Set... and RunFor of the Loss, Reorder, Delay, Jitter and *)
(*               Choke filters on a seeded packet list.                    *)
(* SpecTwins   : Spec for two pipes that differ in loss_percent only and   *)
(*               are given the same calls.                                 *)
(* SpecSpl     : the int16_t maximum and minimum functions of              *)
(*               common_audio/signal_processing/min_max_operations.c.      *)
(* SpecGsmfr   : EnableDTX, DisableDTX and DestructEncoderSafe of the      *)
(*               GSM-FR codec (modules/audio_coding/main/source/           *)
(*               acm_gsmfr.cc).                                            *)
(*                                                                         *)
(* A packet's buffer content is modelled by the ordinal of the SendPacket  *)
(* call that carried it, so that the receiver's log identifies packets.    *)
(* queue_delay_ms and data_length are taken non-negative.                  *)
(***************************************************************************)
EXTENDS Integers, Sequences, FiniteSets, TLC

\* ---------------------------------------------------------------- bounds
\* the clock runs over 0..MaxTime; at most MaxCalls calls of SendPacket
MaxTime == 3
MaxCalls == 3
\* at most MaxSamples samples are pushed into a Stats accumulator
MaxSamples == 3
\* the harness seeds at most MaxPackets packets and calls RunFor at most
\* MaxRuns times
MaxPackets == 3
MaxRuns == 3
\* the vectors handed to the min/max functions have at most MaxVectorLen
\* elements
MaxVectorLen == 3
\* at most MaxCodecCalls calls are made on a GSM-FR codec
MaxCodecCalls == 4

\* --------------------------------------------- constructor and call inputs
\* queue_length, queue_delay_ms, link_capacity_kbps and loss_percent offered
\* to the constructor: 12 kbps is floor(12/8) = 1 byte/ms, 20 kbps is
\* floor(20/8) = 2 bytes/ms, 0 kbps is no capacity at all.
QueueLengthChoices == {0, 1, 2}
QueueDelayChoices == {0, 1}
KbpsChoices == {0, 12, 20}
LossPercentChoices == {0, 50}
\* data_length offered to SendPacket
LengthChoices == {0, 3}

Threads == {"producer", "poller"}

\* the null pointer: no array, and no instance
NULL == [address \in {0} |-> 0]

\* data_point offered to Stats<double>::Push, as exact fractions: -1, 1/2, 2
SampleChoices == {<<-1, 1>>, <<1, 2>>, <<2, 1>>}

\* the filters: send_time and payload_size of the seeded packets; the
\* arguments offered to SetLoss, SetReorder (percent), SetDelay, SetJitter,
\* SetMaxDelay (ms) and SetCapacity (kbps: 8 kbps is 1 byte/ms, 16 kbps is
\* 2 bytes/ms); the samples of Random::Rand() in hundredths and of
\* Random::Gaussian(0, stddev) in multiples of stddev
SendTimeChoices == {0, 1}
PayloadSizeChoices == {2}
PercentChoices == {0, 50, 150}
DelayChoices == {0, 2}
JitterChoices == {0, 1}
MaxDelayChoices == {0, 2}
CapacityChoices == {8, 16}
RandChoices == {0, 50, 100}
GaussianChoices == {-1, 0, 1}

\* the elements of the int16_t vectors: both ends of the type, and around 0
Int16Choices == {-32768, -1, 0, 1, 32767}

VARIABLES
    \* constructor arguments and the members initialised from them; whether
    \* the constructor's assertion held, so that the pipe exists
    queue_length_, queue_delay_ms_, link_capacity_kbps, link_capacity_bytes_ms_,
    loss_percent_, constructed,
    \* the two links and the statistics
    capacity_link_, delay_link_, dropped_packets_, sent_packets_,
    total_packet_delay_,
    \* the heap: the packets whose data_ array is allocated
    allocated,
    \* TickTime::MillisecondTimestamp()
    now,
    \* the PacketReceiver: the sequence of IncomingPacket(data, length) calls
    receiver,
    \* history: number of SendPacket calls, per call what happened to its
    \* packet, and the number of SendPacket calls made before the first
    \* NetworkProcess call (-1 while NetworkProcess was never called)
    calls, hist, calls_at_first_process,
    \* SpecThreads: the owner of link_cs_, and per thread its position, the
    \* call it is in and that call's locals
    link_cs_, pc, frame,
    \* a Stats<double>: its members; the value its last getter call returned
    \* (history, forgotten at the next Push), and whether one of its
    \* assertions failed
    data_, last_mean_count_, last_variance_count_, last_minmax_count_,
    mean_, variance_, min_, max_, returned, assertion_failed,
    \* the filter pipeline: the packet list handed to RunFor, and the filters
    in_out, loss_filter, reorder_filter, delay_filter, jitter_filter,
    choke_filter,
    \* the class of the stages the harness builds its pipeline from
    pipeline,
    \* history: the list as seeded, the number of RunFor calls, and of the
    \* last RunFor call the stage, the list it was given and the filter as it
    \* was
    seeded, runs, last_run,
    \* SpecTwins: a second pipe, constructed with the other loss_percent and
    \* given the same calls at the same clock values
    twin,
    \* min_max_operations.c: the arguments of a call, and what the last call
    \* returned
    in_vector, in_length, spl_returned,
    \* an ACMGSMFR: its encoder instance, the flags its methods read and
    \* write, the mode the encoder instance was last initialised with (-1: no
    \* instance); the
    \* calls made so far with what they returned
    _encoderInstPtr, _encoderExist, _encoderInitialized, _dtxEnabled,
    encoder_mode, codec_calls

config == <<queue_length_, queue_delay_ms_, link_capacity_kbps,
            link_capacity_bytes_ms_, loss_percent_, constructed>>
pipe == <<capacity_link_, delay_link_, dropped_packets_, sent_packets_,
          total_packet_delay_, allocated>>
history == <<hist, calls_at_first_process>>
threads == <<link_cs_, pc, frame>>
stats == <<data_, last_mean_count_, last_variance_count_, last_minmax_count_,
           mean_, variance_, min_, max_, returned, assertion_failed>>
\* the objects of the bandwidth-estimator test framework
filters == <<in_out, loss_filter, reorder_filter, delay_filter, jitter_filter,
             choke_filter, pipeline, seeded, runs, last_run>>
bwe == <<stats, filters>>
spl == <<in_vector, in_length, spl_returned>>
gsmfr == <<_encoderInstPtr, _encoderExist, _encoderInitialized, _dtxEnabled,
           encoder_mode, codec_calls>>
\* the objects of the audio modules
audio == <<spl, gsmfr>>
fake_network_pipe ==
    <<config, pipe, twin, now, receiver, calls, history, threads>>
\* what no call of the pipe touches
elsewhere == <<bwe, audio, twin>>
vars == <<elsewhere, config, pipe, now, receiver, calls, history, threads>>

\* the pipe's members and the receiver's log as one value (of the members the
\* constructor sets, the one that tells two pipes of SpecTwins apart)
PipeState ==
    [capacity_link_ |-> capacity_link_, delay_link_ |-> delay_link_,
     dropped_packets_ |-> dropped_packets_, sent_packets_ |-> sent_packets_,
     total_packet_delay_ |-> total_packet_delay_, receiver |-> receiver,
     allocated |-> allocated, loss_percent_ |-> loss_percent_]

\* ------------------------------------------------------------ NetworkPacket
NetworkPacket(data, length, send_time, arrival_time) ==
    [data |-> data, data_length |-> length, send_time |-> send_time,
     arrival_time |-> arrival_time]

\* mutant of IncrementArrivalTime: the delay replaces the arrival time
IncrementArrivalTime_Set(packet, extra_delay) ==
    [packet EXCEPT !.arrival_time = extra_delay]

\* lines 43-45
IncrementArrivalTime(packet, extra_delay) ==
    [packet EXCEPT !.arrival_time = @ + extra_delay]

\* lines 30-31: the constructor allocates the packet's copy of the data
NewData(heap, data) == heap \cup {data}

\* lines 35-38: ReleaseData frees the copy; no line of the file calls it
ReleaseData(heap, packet) == heap \ {packet.data}

\* lines 33 and 150: delete packet runs ~NetworkPacket() {}, which leaves
\* data_ alone
DeletePacket(heap, packet) == heap

\* ------------------------------------------------------------- SendPacket
\* mutants of QueueFull: an off-by-one comparison, the wrong link, one slot
\* kept free
QueueFull_OffByOne(link) == Len(link) > queue_length_
QueueFull_DelayLink(link) == Len(delay_link_) >= queue_length_

\* line 78: the link is full
QueueFull(link) == Len(link) >= queue_length_

\* line 87: delay introduced by the link capacity (int / int, both >= 0 here)
CapacityDelay(data_length) == data_length \div link_capacity_bytes_ms_

\* mutant of NetworkStartTime: the packets on the link are ignored
NetworkStartTime_Now(link, time_now) == time_now

\* lines 88-93: when the packet starts to be served by the link
NetworkStartTime(link, time_now) ==
    IF Len(link) > 0 THEN link[Len(link)].arrival_time ELSE time_now

\* lines 95-97: the packet pushed on the capacity link
NewPacket(link, data, data_length, time_now) ==
    NetworkPacket(data, data_length, time_now,
                  NetworkStartTime(link, time_now) + CapacityDelay(data_length))

\* mutant of AfterSendPacket: a pipe with a positive loss_percent_ drops the
\* packets of the even calls, as a lossy link would
AfterSendPacket_Lossy(s, data, data_length, time_now) ==
    IF QueueFull(s.capacity_link_) \/ (s.loss_percent_ > 0 /\ data % 2 = 0)
    THEN [s EXCEPT !.dropped_packets_ = @ + 1]
    ELSE [s EXCEPT !.capacity_link_ =
                       Append(@, NewPacket(@, data, data_length, time_now)),
                   !.allocated = NewData(@, data)]

\* lines 78-98: the pipe after SendPacket(data, data_length) at time_now
AfterSendPacket(s, data, data_length, time_now) ==
    IF QueueFull(s.capacity_link_)
    THEN [s EXCEPT !.dropped_packets_ = @ + 1]
    ELSE [s EXCEPT !.capacity_link_ =
                       Append(@, NewPacket(@, data, data_length, time_now)),
                   !.allocated = NewData(@, data)]

\* ---------------------------------------------------------- NetworkProcess
\* mutant of HeadDue: a packet due exactly now is left for the next call
HeadDue_Strict(link, time_now) ==
    Len(link) > 0 /\ time_now > Head(link).arrival_time

\* lines 126-127 and 138-139: the loops' conditions
HeadDue(link, time_now) ==
    Len(link) > 0 /\ time_now >= Head(link).arrival_time

\* line 143: the receiver is handed the packet's data and length
IncomingPacket(log, packet) == Append(log, <<packet.data, packet.data_length>>)

\* mutant of PacketDelay: the clock at delivery instead of the arrival time
PacketDelay_Clock(packet, time_now) == time_now - packet.send_time

\* line 149: what a delivered packet adds to total_packet_delay_
PacketDelay(packet, time_now) == packet.arrival_time - packet.send_time

\* mutant of MoveHead: a due packet is delivered from the capacity link
MoveHead_Direct(s) ==
    [s EXCEPT !.capacity_link_ = Tail(@),
              !.receiver = IncomingPacket(@, Head(s.capacity_link_)),
              !.sent_packets_ = @ + 1,
              !.total_packet_delay_ =
                  @ + PacketDelay(Head(s.capacity_link_), 0) + queue_delay_ms_]

\* mutant of MoveHead: the packet is put at the head of the delay link
MoveHead_Front(s) ==
    [s EXCEPT !.capacity_link_ = Tail(@),
              !.delay_link_ = <<IncrementArrivalTime(Head(s.capacity_link_),
                                                     queue_delay_ms_)>> \o @]

\* lines 129-134: one turn of the capacity loop
MoveHead(s) ==
    [s EXCEPT !.capacity_link_ = Tail(@),
              !.delay_link_ = Append(@, IncrementArrivalTime(
                                  Head(s.capacity_link_), queue_delay_ms_))]

\* lines 126-135: the capacity loop
RECURSIVE CapacityLoop(_, _)
CapacityLoop(s, time_now) ==
    IF HeadDue(s.capacity_link_, time_now)
    THEN CapacityLoop(MoveHead(s), time_now)
    ELSE s

\* mutant of DeliverHead: the delivered packet is not counted as sent
DeliverHead_Uncounted(s, time_now) ==
    [s EXCEPT !.delay_link_ = Tail(@),
              !.receiver = IncomingPacket(@, Head(s.delay_link_)),
              !.total_packet_delay_ = @ + PacketDelay(Head(s.delay_link_), time_now),
              !.allocated = DeletePacket(@, Head(s.delay_link_))]

\* lines 141-150: one turn of the delay loop
DeliverHead(s, time_now) ==
    [s EXCEPT !.delay_link_ = Tail(@),
              !.receiver = IncomingPacket(@, Head(s.delay_link_)),
              !.sent_packets_ = @ + 1,
              !.total_packet_delay_ = @ + PacketDelay(Head(s.delay_link_), time_now),
              !.allocated = DeletePacket(@, Head(s.delay_link_))]

\* mutant of DelayLoop: the head of the delay link is delivered a
\* millisecond before it is due
RECURSIVE DelayLoop_Early(_, _)
DelayLoop_Early(s, time_now) ==
    IF Len(s.delay_link_) > 0 /\ time_now + 1 >= Head(s.delay_link_).arrival_time
    THEN DelayLoop_Early(DeliverHead(s, time_now), time_now)
    ELSE s

\* lines 138-151: the delay loop
RECURSIVE DelayLoop(_, _)
DelayLoop(s, time_now) ==
    IF HeadDue(s.delay_link_, time_now)
    THEN DelayLoop(DeliverHead(s, time_now), time_now)
    ELSE s

\* lines 120-151: the pipe after NetworkProcess() at time_now
AfterNetworkProcess(s, time_now) ==
    IF Len(s.capacity_link_) = 0 /\ Len(s.delay_link_) = 0
    THEN s
    ELSE DelayLoop(CapacityLoop(s, time_now), time_now)

\* ------------------------------------------------------------- statistics
\* A float result is modelled by the exact fraction <<numerator, denominator>>.
Zero == <<0, 1>>
FracEq(a, b) == a[1] * b[2] = b[1] * a[2]

\* mutants of PercentageLossOf: no test of sent_packets_; the drops left out
\* of the denominator
PercentageLossOf_NoGuard(s) ==
    <<s.dropped_packets_, s.sent_packets_ + s.dropped_packets_>>
PercentageLossOf_SentOnly(s) ==
    IF s.sent_packets_ = 0 THEN Zero
    ELSE <<s.dropped_packets_, s.sent_packets_>>

\* lines 103-107
PercentageLossOf(s) ==
    IF s.sent_packets_ = 0 THEN Zero
    ELSE <<s.dropped_packets_, s.sent_packets_ + s.dropped_packets_>>

PercentageLoss == PercentageLossOf(PipeState)

Max(a, b) == IF a >= b THEN a ELSE b

\* C++ integer division truncates toward zero
CDiv(a, b) == IF a >= 0 THEN a \div b ELSE -((-a) \div b)

\* mutant of AverageDelayOf: the dropped packets counted in the divisor
AverageDelayOf_AllPackets(s) ==
    IF s.sent_packets_ = 0 THEN 0
    ELSE CDiv(s.total_packet_delay_, s.sent_packets_ + s.dropped_packets_)

\* lines 112-115
AverageDelayOf(s) ==
    IF s.sent_packets_ = 0 THEN 0
    ELSE CDiv(s.total_packet_delay_, s.sent_packets_)

AverageDelay == AverageDelayOf(PipeState)

\* ---------------------------------------------------------------- history
Path(id) == hist[id].path
Ids == 1..Len(hist)

SeqToSet(s) == {s[i] : i \in 1..Len(s)}
DataOf(s) == {s[i].data : i \in 1..Len(s)}

\* what SendPacket did with the packet of a call
Sent(s, data_length, time_now) ==
    IF QueueFull(s.capacity_link_)
    THEN [length |-> data_length, send_time |-> time_now, arrival_time |-> 0,
          delivered_at |-> -1, path |-> <<"Injected", "Dropped">>]
    ELSE [length |-> data_length, send_time |-> time_now,
          arrival_time |-> NewPacket(s.capacity_link_, 0, data_length,
                                     time_now).arrival_time,
          delivered_at |-> -1, path |-> <<"Injected", "QueuedForCapacity">>]

\* what a NetworkProcess call at time_now did with each packet, the pipe being
\* s on entry, m between the two loops and t on return: the packets the delay
\* link gained in the capacity loop were queued for delay, those the receiver
\* was handed were delivered
Processed(h, s, m, t, time_now) ==
    LET moved == DataOf(m.delay_link_) \ DataOf(s.delay_link_)
        delivered == {t.receiver[i][1] :
                          i \in Len(s.receiver) + 1..Len(t.receiver)}
    IN [id \in 1..Len(h) |->
          LET h1 == IF id \in moved
                    THEN [h[id] EXCEPT !.path = Append(@, "QueuedForDelay")]
                    ELSE h[id]
          IN IF id \in delivered
             THEN [h1 EXCEPT !.path = Append(@, "Delivered"),
                             !.delivered_at = time_now]
             ELSE h1]

\* ------------------------------------------------------------------- Init
NoFrame == [op |-> "none"]

\* mutant of StatsNew: last_mean_count_ is not zeroed
StatsNew_StaleCount ==
    [data_ |-> <<>>, last_mean_count_ |-> 1, last_variance_count_ |-> 0,
     last_minmax_count_ |-> 0, mean_ |-> Zero, variance_ |-> Zero,
     min_ |-> Zero, max_ |-> Zero, assertion_failed |-> FALSE]

\* bwe_test_framework.h, lines 31-40: the constructor
StatsNew ==
    [data_ |-> <<>>, last_mean_count_ |-> 0, last_variance_count_ |-> 0,
     last_minmax_count_ |-> 0, mean_ |-> Zero, variance_ |-> Zero,
     min_ |-> Zero, max_ |-> Zero, assertion_failed |-> FALSE]

\* no getter of the Stats was called yet
NoReturn == [op |-> "none", value |-> Zero]

\* bwe_test_framework.h, lines 31-40
StatsConstructed ==
    /\ data_ = StatsNew.data_
    /\ last_mean_count_ = StatsNew.last_mean_count_
    /\ last_variance_count_ = StatsNew.last_variance_count_
    /\ last_minmax_count_ = StatsNew.last_minmax_count_
    /\ mean_ = StatsNew.mean_
    /\ variance_ = StatsNew.variance_
    /\ min_ = StatsNew.min_
    /\ max_ = StatsNew.max_
    /\ assertion_failed = StatsNew.assertion_failed
    /\ returned = NoReturn

\* the filters as constructed, before any Set call, and an empty packet list:
\* no loss, no reordering, no delay, no jitter, no capacity set
NoRun == [stage |-> "none", input |-> <<>>, filter |-> <<>>]
FiltersConstructed ==
    /\ in_out = <<>>
    /\ loss_filter = [p |-> 0]
    /\ reorder_filter = [p |-> 0]
    /\ delay_filter = [delay |-> 0, last_emitted_send_time |-> 0]
    /\ jitter_filter = [stddev |-> 0, last_emitted_send_time |-> 0]
    /\ choke_filter = [kbps |-> 0, max_delay_ms |-> 0, finish_time |-> 0]
    /\ pipeline = "none"
    /\ seeded = <<>>
    /\ runs = 0
    /\ last_run = NoRun

\* fake_network_pipe.cc, lines 58-71: the second pipe of SpecTwins is
\* constructed as the first, but for the other loss_percent
OtherLossPercent(loss_percent) ==
    CHOOSE other \in LossPercentChoices : other # loss_percent

TwinConstructed ==
    twin = [capacity_link_ |-> <<>>, delay_link_ |-> <<>>,
            dropped_packets_ |-> 0, sent_packets_ |-> 0,
            total_packet_delay_ |-> 0, receiver |-> <<>>, allocated |-> {},
            loss_percent_ |-> OtherLossPercent(loss_percent_)]

\* min_max_operations.c: no call was made
NoCall == [fn |-> "none", value |-> 0]
NoVector ==
    /\ in_vector = NULL
    /\ in_length = 0
    /\ spl_returned = NoCall

\* acm_gsmfr.cc, lines 169-177: the constructor; _encoderExist,
\* _encoderInitialized and _dtxEnabled are members of the base class, false
\* until an encoder is created, initialised, and DTX enabled
CodecConstructed ==
    /\ _encoderInstPtr = NULL
    /\ _encoderExist = FALSE
    /\ _encoderInitialized = FALSE
    /\ _dtxEnabled = FALSE
    /\ encoder_mode = -1
    /\ codec_calls = <<>>

\* lines 58-71: the state after construction; the assertion of line 70 is
\* taken as compiled in, and a pipe whose construction it stopped takes no call
PipeConstructed ==
    /\ queue_length_ \in QueueLengthChoices
    /\ queue_delay_ms_ \in QueueDelayChoices
    /\ link_capacity_kbps \in KbpsChoices
    /\ link_capacity_bytes_ms_ = link_capacity_kbps \div 8
    /\ constructed = (link_capacity_bytes_ms_ > 0)
    /\ loss_percent_ \in LossPercentChoices
    /\ capacity_link_ = <<>>
    /\ delay_link_ = <<>>
    /\ dropped_packets_ = 0
    /\ sent_packets_ = 0
    /\ total_packet_delay_ = 0
    /\ allocated = {}
    /\ TwinConstructed
    /\ now = 0
    /\ receiver = <<>>
    /\ calls = 0
    /\ hist = <<>>
    /\ calls_at_first_process = -1
    /\ link_cs_ = "free"
    /\ pc = [t \in Threads |-> "idle"]
    /\ frame = [t \in Threads |-> NoFrame]

\* every object as constructed
Init ==
    /\ PipeConstructed
    /\ StatsConstructed
    /\ FiltersConstructed
    /\ NoVector
    /\ CodecConstructed

\* the pipe's members and the receiver's log become those of s
Becomes(s) ==
    /\ capacity_link_' = s.capacity_link_
    /\ delay_link_' = s.delay_link_
    /\ dropped_packets_' = s.dropped_packets_
    /\ sent_packets_' = s.sent_packets_
    /\ total_packet_delay_' = s.total_packet_delay_
    /\ receiver' = s.receiver
    /\ allocated' = s.allocated

\* ------------------------------------------------- actions, a call a step
\* lines 76-99
SendPacket(data_length) ==
    /\ constructed
    /\ calls < MaxCalls
    /\ calls' = calls + 1
    /\ Becomes(AfterSendPacket(PipeState, calls + 1, data_length, now))
    /\ hist' = Append(hist, Sent(PipeState, data_length, now))
    /\ UNCHANGED <<elsewhere, config, now, calls_at_first_process, threads>>

\* lines 118-152
NetworkProcess ==
    /\ constructed
    /\ \E m \in {CapacityLoop(PipeState, now)},
          t \in {AfterNetworkProcess(PipeState, now)} :
           /\ Becomes(t)
           /\ hist' = Processed(hist, PipeState, m, t, now)
    /\ calls_at_first_process' =
           IF calls_at_first_process = -1 THEN calls ELSE calls_at_first_process
    /\ UNCHANGED <<elsewhere, config, now, calls, threads>>

\* the clock advances
Tick ==
    /\ now < MaxTime
    /\ now' = now + 1
    /\ UNCHANGED <<elsewhere, config, pipe, receiver, calls, history, threads>>

Next ==
    \/ \E data_length \in LengthChoices : SendPacket(data_length)
    \/ NetworkProcess
    \/ Tick

Spec == Init /\ [][Next]_vars

\* the driver keeps calling NetworkProcess and the clock keeps running (up to
\* MaxTime), on a pipe with a queue of two packets, 1 ms of queue delay and a
\* link of 2 bytes/ms
InitLive ==
    /\ Init
    /\ queue_length_ = 2
    /\ queue_delay_ms_ = 1
    /\ link_capacity_kbps = 20
    /\ loss_percent_ = 0

SpecLive ==
    InitLive /\ [][Next]_vars /\ WF_vars(NetworkProcess) /\ WF_vars(Tick)

\* ------------------------------------ two pipes given the same calls
\* lines 76-99: SendPacket with the same data on the pipe and on its twin
TwinSendPacket(data_length) ==
    /\ constructed
    /\ calls < MaxCalls
    /\ calls' = calls + 1
    /\ Becomes(AfterSendPacket(PipeState, calls + 1, data_length, now))
    /\ twin' = AfterSendPacket(twin, calls + 1, data_length, now)
    /\ UNCHANGED <<bwe, audio, config, now, history, threads>>

\* lines 118-152: NetworkProcess on the pipe and on its twin
TwinNetworkProcess ==
    /\ constructed
    /\ Becomes(AfterNetworkProcess(PipeState, now))
    /\ twin' = AfterNetworkProcess(twin, now)
    /\ UNCHANGED <<bwe, audio, config, now, calls, history, threads>>

NextTwins ==
    \/ \E data_length \in LengthChoices : TwinSendPacket(data_length)
    \/ TwinNetworkProcess
    \/ Tick

SpecTwins == Init /\ [][NextTwins]_vars

\* ------------------------------------- actions, a statement a step, threads
\* a call's locals: its arguments, time_now, the packet at hand, the value
\* it returns, and (history) the pipe as the call found it on entry
Frame(op, data, data_length) ==
    [op |-> op, data |-> data, data_length |-> data_length, time_now |-> -1,
     packet |-> <<>>, result |-> <<>>, entry |-> <<>>]

At(t, label) == pc[t] = label
Goto(t, label) == pc' = [pc EXCEPT ![t] = label]
Local(t) == frame[t]

\* mutant of Acquirable: the lock is taken without waiting for it
Acquirable_Always(owner) == TRUE

\* line 77 (and 102, 111, 119): CriticalSectionScoped waits for link_cs_
Acquirable(owner) == owner = "free"

\* the producer thread calls SendPacket(data, data_length)
CallSendPacket(data_length) ==
    /\ constructed
    /\ At("producer", "idle")
    /\ calls < MaxCalls
    /\ calls' = calls + 1
    /\ frame' = [frame EXCEPT !["producer"] =
                     Frame("SendPacket", calls + 1, data_length)]
    /\ Goto("producer", "enter")
    /\ UNCHANGED <<elsewhere, config, pipe, now, receiver, history, link_cs_>>

\* the poll thread calls NetworkProcess(), PercentageLoss() or AverageDelay()
CallPoll(op) ==
    /\ constructed
    /\ At("poller", "idle")
    /\ frame' = [frame EXCEPT !["poller"] = Frame(op, 0, 0)]
    /\ Goto("poller", "enter")
    /\ UNCHANGED <<elsewhere, config, pipe, now, receiver, calls, history, link_cs_>>

\* lines 77, 102, 111, 119: the scoped lock is taken
Enter(t) ==
    /\ At(t, "enter")
    /\ Acquirable(link_cs_)
    /\ link_cs_' = t
    /\ frame' = [frame EXCEPT ![t].entry = PipeState]
    /\ Goto(t, Local(t).op)
    /\ UNCHANGED <<elsewhere, config, pipe, now, receiver, calls, history>>

\* the scoped lock is released on return
Leave(t) ==
    /\ At(t, "leave")
    /\ link_cs_' = "free"
    /\ frame' = [frame EXCEPT ![t] = NoFrame]
    /\ Goto(t, "idle")
    /\ UNCHANGED <<elsewhere, config, pipe, now, receiver, calls, history>>

\* lines 78-82
SendPacketCheck ==
    /\ At("producer", "SendPacket")
    /\ IF QueueFull(capacity_link_)
       THEN /\ dropped_packets_' = dropped_packets_ + 1
            /\ Goto("producer", "leave")
       ELSE /\ dropped_packets_' = dropped_packets_
            /\ Goto("producer", "SendPacket_time")
    /\ UNCHANGED <<elsewhere, config, capacity_link_, delay_link_, sent_packets_,
                   total_packet_delay_, allocated, now, receiver, calls,
                   history, link_cs_, frame>>

\* line 84
SendPacketTime ==
    /\ At("producer", "SendPacket_time")
    /\ frame' = [frame EXCEPT !["producer"].time_now = now]
    /\ Goto("producer", "SendPacket_push")
    /\ UNCHANGED <<elsewhere, config, pipe, now, receiver, calls, history, link_cs_>>

\* lines 87-98
SendPacketPush ==
    /\ At("producer", "SendPacket_push")
    /\ capacity_link_' =
           Append(capacity_link_,
                  NewPacket(capacity_link_, Local("producer").data,
                            Local("producer").data_length,
                            Local("producer").time_now))
    /\ allocated' = NewData(allocated, Local("producer").data)
    /\ Goto("producer", "leave")
    /\ UNCHANGED <<elsewhere, config, delay_link_, dropped_packets_, sent_packets_,
                   total_packet_delay_, now, receiver, calls, history,
                   link_cs_, frame>>

\* lines 120-121
NetworkProcessCheck ==
    /\ At("poller", "NetworkProcess")
    /\ IF Len(capacity_link_) = 0 /\ Len(delay_link_) = 0
       THEN Goto("poller", "leave")
       ELSE Goto("poller", "NetworkProcess_time")
    /\ UNCHANGED <<elsewhere, config, pipe, now, receiver, calls, history, link_cs_, frame>>

\* line 123
NetworkProcessTime ==
    /\ At("poller", "NetworkProcess_time")
    /\ frame' = [frame EXCEPT !["poller"].time_now = now]
    /\ Goto("poller", "NetworkProcess_capacity")
    /\ UNCHANGED <<elsewhere, config, pipe, now, receiver, calls, history, link_cs_>>

\* lines 126-135: one turn of the capacity loop, or its end
NetworkProcessCapacity ==
    /\ At("poller", "NetworkProcess_capacity")
    /\ IF HeadDue(capacity_link_, Local("poller").time_now)
       THEN /\ capacity_link_' = Tail(capacity_link_)
            /\ delay_link_' =
                   Append(delay_link_,
                          IncrementArrivalTime(Head(capacity_link_), queue_delay_ms_))
            /\ UNCHANGED pc
       ELSE /\ UNCHANGED <<capacity_link_, delay_link_>>
            /\ Goto("poller", "NetworkProcess_delay")
    /\ UNCHANGED <<elsewhere, config, dropped_packets_, sent_packets_, total_packet_delay_,
                   allocated, now, receiver, calls, history, link_cs_, frame>>

\* lines 138-143: the delay loop's test, the pop and the delivery
NetworkProcessDelay ==
    /\ At("poller", "NetworkProcess_delay")
    /\ IF HeadDue(delay_link_, Local("poller").time_now)
       THEN /\ delay_link_' = Tail(delay_link_)
            /\ receiver' = IncomingPacket(receiver, Head(delay_link_))
            /\ frame' = [frame EXCEPT !["poller"].packet = Head(delay_link_)]
            /\ Goto("poller", "NetworkProcess_sent")
       ELSE /\ UNCHANGED <<delay_link_, receiver, frame>>
            /\ Goto("poller", "leave")
    /\ UNCHANGED <<elsewhere, config, capacity_link_, dropped_packets_, sent_packets_,
                   total_packet_delay_, allocated, now, calls, history, link_cs_>>

\* line 144
NetworkProcessSent ==
    /\ At("poller", "NetworkProcess_sent")
    /\ sent_packets_' = sent_packets_ + 1
    /\ Goto("poller", "NetworkProcess_total")
    /\ UNCHANGED <<elsewhere, config, capacity_link_, delay_link_, dropped_packets_,
                   total_packet_delay_, allocated, now, receiver, calls,
                   history, link_cs_, frame>>

\* lines 149-150
NetworkProcessTotal ==
    /\ At("poller", "NetworkProcess_total")
    /\ total_packet_delay_' =
           total_packet_delay_
           + PacketDelay(Local("poller").packet, Local("poller").time_now)
    /\ allocated' = DeletePacket(allocated, Local("poller").packet)
    /\ frame' = [frame EXCEPT !["poller"].packet = <<>>]
    /\ Goto("poller", "NetworkProcess_delay")
    /\ UNCHANGED <<elsewhere, config, capacity_link_, delay_link_, dropped_packets_,
                   sent_packets_, now, receiver, calls, history, link_cs_>>

\* lines 103-104, and 112-113: the test of sent_packets_
StatsCheck ==
    /\ \/ At("poller", "PercentageLoss")
       \/ At("poller", "AverageDelay")
    /\ IF sent_packets_ = 0
       THEN /\ frame' = [frame EXCEPT !["poller"].result =
                             IF At("poller", "PercentageLoss") THEN Zero ELSE 0]
            /\ Goto("poller", "leave")
       ELSE /\ UNCHANGED frame
            /\ Goto("poller", IF At("poller", "PercentageLoss")
                              THEN "PercentageLoss_divide"
                              ELSE "AverageDelay_divide")
    /\ UNCHANGED <<elsewhere, config, pipe, now, receiver, calls, history, link_cs_>>

\* lines 106-107
PercentageLossDivide ==
    /\ At("poller", "PercentageLoss_divide")
    /\ frame' = [frame EXCEPT !["poller"].result =
                     <<dropped_packets_, sent_packets_ + dropped_packets_>>]
    /\ Goto("poller", "leave")
    /\ UNCHANGED <<elsewhere, config, pipe, now, receiver, calls, history, link_cs_>>

\* line 115
AverageDelayDivide ==
    /\ At("poller", "AverageDelay_divide")
    /\ frame' = [frame EXCEPT !["poller"].result =
                     CDiv(total_packet_delay_, sent_packets_)]
    /\ Goto("poller", "leave")
    /\ UNCHANGED <<elsewhere, config, pipe, now, receiver, calls, history, link_cs_>>

NextThreads ==
    \/ \E data_length \in LengthChoices : CallSendPacket(data_length)
    \/ \E op \in {"NetworkProcess", "PercentageLoss", "AverageDelay"} : CallPoll(op)
    \/ \E t \in Threads : Enter(t)
    \/ \E t \in Threads : Leave(t)
    \/ SendPacketCheck
    \/ SendPacketTime
    \/ SendPacketPush
    \/ NetworkProcessCheck
    \/ NetworkProcessTime
    \/ NetworkProcessCapacity
    \/ NetworkProcessDelay
    \/ NetworkProcessSent
    \/ NetworkProcessTotal
    \/ StatsCheck
    \/ PercentageLossDivide
    \/ AverageDelayDivide
    \/ Tick

SpecThreads == Init /\ [][NextThreads]_vars

\* ===================================================================== Stats
\* Stats<T> of bwe_test_framework.h with T = double (the instantiation of lines
\* 203-204). A double is modelled by the exact fraction <<numerator,
\* denominator>> in lowest terms with a positive denominator: sums, products
\* and quotients are exact, the rounding of a double is not modelled.
RECURSIVE GCD(_, _)
GCD(a, b) == IF b = 0 THEN a ELSE GCD(b, a % b)
Abs(a) == IF a < 0 THEN -a ELSE a
Norm(f) ==
    LET g == GCD(Abs(f[1]), Abs(f[2]))
        sign == IF f[2] < 0 THEN -1 ELSE 1
    IN <<sign * (f[1] \div g), sign * (f[2] \div g)>>
FAdd(a, b) == Norm(<<a[1] * b[2] + b[1] * a[2], a[2] * b[2]>>)
FSub(a, b) == Norm(<<a[1] * b[2] - b[1] * a[2], a[2] * b[2]>>)
FMul(a, b) == Norm(<<a[1] * b[1], a[2] * b[2]>>)
FDivCount(a, count) == Norm(<<a[1], a[2] * count>>)
FLess(a, b) == a[1] * b[2] < b[1] * a[2]
\* std::min(a, b) is b when b < a and a otherwise; std::max(a, b) is b when
\* a < b and a otherwise
FMin(a, b) == IF FLess(b, a) THEN b ELSE a
FMax(a, b) == IF FLess(a, b) THEN b ELSE a

\* the accumulator's members as one value
StatsState ==
    [data_ |-> data_, last_mean_count_ |-> last_mean_count_,
     last_variance_count_ |-> last_variance_count_,
     last_minmax_count_ |-> last_minmax_count_, mean_ |-> mean_,
     variance_ |-> variance_, min_ |-> min_, max_ |-> max_,
     assertion_failed |-> assertion_failed]

\* lines 42-44
AfterPush(st, data_point) == [st EXCEPT !.data_ = Append(@, data_point)]

\* line 49: std::accumulate(data_.begin(), data_.end(), init)
RECURSIVE Accumulate(_, _)
Accumulate(data, init) ==
    IF data = <<>> THEN init
    ELSE Accumulate(Tail(data), FAdd(init, Head(data)))

\* mutant of AfterGetMean: the mean is computed at the first read only
AfterGetMean_Once(st) ==
    IF st.last_mean_count_ = 0 /\ Len(st.data_) # 0
    THEN [st EXCEPT !.last_mean_count_ = Len(st.data_),
                    !.mean_ = FDivCount(Accumulate(st.data_, Zero),
                                        Len(st.data_))]
    ELSE st

\* lines 46-54: the accumulator after GetMean(), which returns its mean_; the
\* assertion of line 50 stops the call before the division
AfterGetMean(st) ==
    IF st.last_mean_count_ # Len(st.data_)
    THEN IF Len(st.data_) = 0
         THEN [st EXCEPT !.last_mean_count_ = 0,
                         !.mean_ = Accumulate(st.data_, Zero),
                         !.assertion_failed = TRUE]
         ELSE [st EXCEPT !.last_mean_count_ = Len(st.data_),
                         !.mean_ = FDivCount(Accumulate(st.data_, Zero),
                                             Len(st.data_))]
    ELSE st

\* lines 59-63: the loop adding diff * diff
RECURSIVE SquaredDiffs(_, _, _)
SquaredDiffs(data, mean, variance) ==
    IF data = <<>> THEN variance
    ELSE LET diff == FSub(Head(data), mean)
         IN SquaredDiffs(Tail(data), mean, FAdd(variance, FMul(diff, diff)))

\* mutant of AfterGetVariance: the cached mean_ is read, GetMean is not called
AfterGetVariance_CachedMean(st) ==
    IF st.last_variance_count_ # Len(st.data_)
    THEN LET m == [st EXCEPT !.last_variance_count_ = Len(st.data_)]
             sum == SquaredDiffs(m.data_, m.mean_, Zero)
         IN IF Len(m.data_) = 0
            THEN [m EXCEPT !.variance_ = sum, !.assertion_failed = TRUE]
            ELSE [m EXCEPT !.variance_ = FDivCount(sum, Len(m.data_))]
    ELSE st

\* lines 55-69: the accumulator after GetVariance(), which returns its
\* variance_
AfterGetVariance(st) ==
    IF st.last_variance_count_ # Len(st.data_)
    THEN LET m == AfterGetMean([st EXCEPT
                                   !.last_variance_count_ = Len(st.data_)])
             sum == SquaredDiffs(m.data_, m.mean_, Zero)
         IN IF m.assertion_failed THEN m
            ELSE IF Len(m.data_) = 0
            THEN [m EXCEPT !.variance_ = sum, !.assertion_failed = TRUE]
            ELSE [m EXCEPT !.variance_ = FDivCount(sum, Len(m.data_))]
    ELSE st

\* lines 96-100: the loop over the samples after the first
RECURSIVE MinMaxLoop(_, _)
MinMaxLoop(st, rest) ==
    IF rest = <<>> THEN st
    ELSE MinMaxLoop([st EXCEPT !.min_ = FMin(@, Head(rest)),
                               !.max_ = FMax(@, Head(rest))], Tail(rest))

\* lines 88-102
RefreshMinMax(st) ==
    IF st.last_minmax_count_ # Len(st.data_)
    THEN IF st.data_ = <<>>
         THEN [st EXCEPT !.last_minmax_count_ = 0, !.min_ = Zero,
                         !.max_ = Zero]
         ELSE MinMaxLoop([st EXCEPT !.last_minmax_count_ = Len(st.data_),
                                    !.min_ = Head(st.data_),
                                    !.max_ = Head(st.data_)], Tail(st.data_))
    ELSE st

StatsBecomes(st) ==
    /\ data_' = st.data_
    /\ last_mean_count_' = st.last_mean_count_
    /\ last_variance_count_' = st.last_variance_count_
    /\ last_minmax_count_' = st.last_minmax_count_
    /\ mean_' = st.mean_
    /\ variance_' = st.variance_
    /\ min_' = st.min_
    /\ max_' = st.max_
    /\ assertion_failed' = st.assertion_failed

\* lines 42-44
Push(data_point) ==
    /\ ~assertion_failed
    /\ Len(data_) < MaxSamples
    /\ StatsBecomes(AfterPush(StatsState, data_point))
    /\ returned' = NoReturn
    /\ UNCHANGED <<filters, fake_network_pipe, audio>>

\* lines 46-54
GetMean ==
    /\ ~assertion_failed
    /\ StatsBecomes(AfterGetMean(StatsState))
    /\ returned' = [op |-> "GetMean", value |-> AfterGetMean(StatsState).mean_]
    /\ UNCHANGED <<filters, fake_network_pipe, audio>>

\* lines 55-69
GetVariance ==
    /\ ~assertion_failed
    /\ StatsBecomes(AfterGetVariance(StatsState))
    /\ returned' = [op |-> "GetVariance",
                    value |-> AfterGetVariance(StatsState).variance_]
    /\ UNCHANGED <<filters, fake_network_pipe, audio>>

\* lines 73-76
GetMin ==
    /\ ~assertion_failed
    /\ StatsBecomes(RefreshMinMax(StatsState))
    /\ returned' = [op |-> "GetMin", value |-> RefreshMinMax(StatsState).min_]
    /\ UNCHANGED <<filters, fake_network_pipe, audio>>

\* lines 77-80
GetMax ==
    /\ ~assertion_failed
    /\ StatsBecomes(RefreshMinMax(StatsState))
    /\ returned' = [op |-> "GetMax", value |-> RefreshMinMax(StatsState).max_]
    /\ UNCHANGED <<filters, fake_network_pipe, audio>>

\* one pipe, left alone, beside the accumulator
InitStats ==
    /\ Init
    /\ queue_length_ = 1
    /\ queue_delay_ms_ = 0
    /\ link_capacity_kbps = 12
    /\ loss_percent_ = 0

NextStats ==
    \/ \E data_point \in SampleChoices : Push(data_point)
    \/ GetMean
    \/ GetVariance
    \/ GetMin
    \/ GetMax

SpecStats == InitStats /\ [][NextStats]_vars

\* =================================================================== filters
\* The packet filters of bwe_test_framework.h (lines 209-286 declare them; the
\* bodies of Set... and RunFor are modelled from the specification, sections
\* 4.1 to 4.6). Times are in ms. A packet is [id, send_time, payload_size],
\* id being its place in the seeded list. RunFor's elapsed time is advisory
\* and these stages ignore it. The draws of the Random stream are arbitrary.
IsTimeSorted(list) ==
    \A i \in 1..Len(list) - 1 : list[i].send_time <= list[i + 1].send_time

\* the lists the harness seeds: at most MaxPackets packets, in any order of
\* send_time
SeededLists ==
    UNION {{[i \in 1..n |-> [id |-> i, send_time |-> t[i],
                             payload_size |-> z[i]]] :
                t \in [1..n -> SendTimeChoices],
                z \in [1..n -> PayloadSizeChoices]} : n \in 0..MaxPackets}

StageClasses == {"Loss", "Reorder", "Delay", "Jitter", "Choke"}

\* 4.2: p = percent/100 clamped to [0, 1], kept in hundredths
Clamp(percent) ==
    IF percent < 0 THEN 0 ELSE IF percent > 100 THEN 100 ELSE percent

\* 4.2: a packet is dropped iff its sample < p; the survivors keep their order
RECURSIVE LossFilterRun(_, _, _)
LossFilterRun(list, p, samples) ==
    IF list = <<>> THEN <<>>
    ELSE IF Head(samples) < p
    THEN LossFilterRun(Tail(list), p, Tail(samples))
    ELSE <<Head(list)>> \o LossFilterRun(Tail(list), p, Tail(samples))

\* mutant of Swap: the packet is swapped with the first of the list
Swap_First(list, i) ==
    [list EXCEPT ![1] = list[i], ![i] = list[1]]

\* 4.3: the packet at position i is swapped with its immediate predecessor
Swap(list, i) ==
    [list EXCEPT ![i - 1] = list[i], ![i] = list[i - 1]]

\* 4.3: the scan over the positions after the first: a swap iff sample < p
RECURSIVE ReorderScan(_, _, _, _)
ReorderScan(list, p, samples, i) ==
    IF i > Len(list) THEN list
    ELSE ReorderScan(IF samples[i] < p THEN Swap(list, i) ELSE list,
                     p, samples, i + 1)

ReorderFilterRun(list, p, samples) == ReorderScan(list, p, samples, 2)

\* mutant of Emit: the delayed time without the clamp
Emit_NoClamp(last, packet, delay) == packet.send_time + delay

\* 4.4, 4.5: the send_time a packet is emitted with
Emit(last, packet, delay) == Max(last, packet.send_time + delay)

\* 4.4: every packet is emitted at max(last emitted, send_time + delay); the
\* result is the list and the last emitted send_time
RECURSIVE DelayFilterRun(_, _, _)
DelayFilterRun(list, delay, last) ==
    IF list = <<>> THEN [out |-> <<>>, last |-> last]
    ELSE LET t == Emit(last, Head(list), delay)
             rest == DelayFilterRun(Tail(list), delay, t)
         IN [out |-> <<[Head(list) EXCEPT !.send_time = t]>> \o rest.out,
             last |-> rest.last]

\* 4.5: as 4.4, with a delay drawn for each packet
RECURSIVE JitterFilterRun(_, _, _)
JitterFilterRun(list, draws, last) ==
    IF list = <<>> THEN [out |-> <<>>, last |-> last]
    ELSE LET t == Emit(last, Head(list), Head(draws))
             rest == JitterFilterRun(Tail(list), Tail(draws), t)
         IN [out |-> <<[Head(list) EXCEPT !.send_time = t]>> \o rest.out,
             last |-> rest.last]

\* 4.6: payload_size / (kbps/8), kbps/8 being the bytes per ms
ServiceTime(payload_size, kbps) == payload_size \div (kbps \div 8)

\* mutant of Choked: a packet at the bound is dropped too
Choked_AtBound(queuing_delay, max_delay_ms) == queuing_delay >= max_delay_ms

\* 4.6: the packet is dropped iff its queuing delay exceeds max_delay_ms
Choked(queuing_delay, max_delay_ms) == queuing_delay > max_delay_ms

\* 4.6: packets are serviced in order, a packet sent at max(send_time, finish
\* time of the packet before it) and finished a service time later; a dropped
\* packet takes no service. The result is the list and the last finish time
RECURSIVE ChokeFilterRun(_, _, _, _)
ChokeFilterRun(list, kbps, max_delay_ms, finish) ==
    IF list = <<>> THEN [out |-> <<>>, finish |-> finish]
    ELSE LET packet == Head(list)
             t == Max(packet.send_time, finish)
         IN IF Choked(t - packet.send_time, max_delay_ms)
            THEN ChokeFilterRun(Tail(list), kbps, max_delay_ms, finish)
            ELSE LET rest == ChokeFilterRun(
                                 Tail(list), kbps, max_delay_ms,
                                 t + ServiceTime(packet.payload_size, kbps))
                 IN [out |-> <<[packet EXCEPT !.send_time = t]>> \o rest.out,
                     finish |-> rest.finish]

\* the harness builds a pipeline of stages of one class and seeds the packet
\* list
Seed(class, list) ==
    /\ pipeline = "none"
    /\ pipeline' = class
    /\ in_out' = list
    /\ seeded' = list
    /\ UNCHANGED <<loss_filter, reorder_filter, delay_filter, jitter_filter,
                   choke_filter, runs, last_run>>
    /\ UNCHANGED <<stats, fake_network_pipe, audio>>

SetLoss(percent) ==
    /\ pipeline = "Loss"
    /\ loss_filter' = [loss_filter EXCEPT !.p = Clamp(percent)]
    /\ UNCHANGED <<in_out, reorder_filter, delay_filter, jitter_filter,
                   choke_filter, pipeline, seeded, runs, last_run>>
    /\ UNCHANGED <<stats, fake_network_pipe, audio>>

SetReorder(percent) ==
    /\ pipeline = "Reorder"
    /\ reorder_filter' = [reorder_filter EXCEPT !.p = Clamp(percent)]
    /\ UNCHANGED <<in_out, loss_filter, delay_filter, jitter_filter,
                   choke_filter, pipeline, seeded, runs, last_run>>
    /\ UNCHANGED <<stats, fake_network_pipe, audio>>

SetDelay(delay_ms) ==
    /\ pipeline = "Delay"
    /\ delay_filter' = [delay_filter EXCEPT !.delay = delay_ms]
    /\ UNCHANGED <<in_out, loss_filter, reorder_filter, jitter_filter,
                   choke_filter, pipeline, seeded, runs, last_run>>
    /\ UNCHANGED <<stats, fake_network_pipe, audio>>

SetJitter(stddev_ms) ==
    /\ pipeline = "Jitter"
    /\ jitter_filter' = [jitter_filter EXCEPT !.stddev = stddev_ms]
    /\ UNCHANGED <<in_out, loss_filter, reorder_filter, delay_filter,
                   choke_filter, pipeline, seeded, runs, last_run>>
    /\ UNCHANGED <<stats, fake_network_pipe, audio>>

SetCapacity(kbps) ==
    /\ pipeline = "Choke"
    /\ choke_filter' = [choke_filter EXCEPT !.kbps = kbps]
    /\ UNCHANGED <<in_out, loss_filter, reorder_filter, delay_filter,
                   jitter_filter, pipeline, seeded, runs, last_run>>
    /\ UNCHANGED <<stats, fake_network_pipe, audio>>

SetMaxDelay(max_delay_ms) ==
    /\ pipeline = "Choke"
    /\ choke_filter' = [choke_filter EXCEPT !.max_delay_ms = max_delay_ms]
    /\ UNCHANGED <<in_out, loss_filter, reorder_filter, delay_filter,
                   jitter_filter, pipeline, seeded, runs, last_run>>
    /\ UNCHANGED <<stats, fake_network_pipe, audio>>

\* a RunFor call of a stage is recorded
Ran(stage, filter) ==
    /\ pipeline = stage
    /\ runs < MaxRuns
    /\ runs' = runs + 1
    /\ UNCHANGED <<pipeline, seeded>>
    /\ last_run' = [stage |-> stage, input |-> in_out, filter |-> filter]
    /\ UNCHANGED <<stats, fake_network_pipe, audio>>

LossFilterRunFor ==
    /\ Ran("Loss", loss_filter)
    /\ \E samples \in [1..Len(in_out) -> RandChoices] :
           in_out' = LossFilterRun(in_out, loss_filter.p, samples)
    /\ UNCHANGED <<loss_filter, reorder_filter, delay_filter, jitter_filter,
                   choke_filter>>

ReorderFilterRunFor ==
    /\ Ran("Reorder", reorder_filter)
    /\ \E samples \in [1..Len(in_out) -> RandChoices] :
           in_out' = ReorderFilterRun(in_out, reorder_filter.p, samples)
    /\ UNCHANGED <<loss_filter, reorder_filter, delay_filter, jitter_filter,
                   choke_filter>>

DelayFilterRunFor ==
    /\ Ran("Delay", delay_filter)
    /\ LET r == DelayFilterRun(in_out, delay_filter.delay,
                               delay_filter.last_emitted_send_time)
       IN /\ in_out' = r.out
          /\ delay_filter' =
                 [delay_filter EXCEPT !.last_emitted_send_time = r.last]
    /\ UNCHANGED <<loss_filter, reorder_filter, jitter_filter, choke_filter>>

JitterFilterRunFor ==
    /\ Ran("Jitter", jitter_filter)
    /\ \E samples \in [1..Len(in_out) -> GaussianChoices] :
           LET draws == [i \in 1..Len(in_out) |->
                            samples[i] * jitter_filter.stddev]
               r == JitterFilterRun(in_out, draws,
                                    jitter_filter.last_emitted_send_time)
           IN /\ in_out' = r.out
              /\ jitter_filter' =
                     [jitter_filter EXCEPT !.last_emitted_send_time = r.last]
    /\ UNCHANGED <<loss_filter, reorder_filter, delay_filter, choke_filter>>

\* a choke without a capacity serves nothing: RunFor is called once
\* SetCapacity gave it at least one byte per ms
ChokeFilterRunFor ==
    /\ choke_filter.kbps \div 8 > 0
    /\ Ran("Choke", choke_filter)
    /\ LET r == ChokeFilterRun(in_out, choke_filter.kbps,
                               choke_filter.max_delay_ms,
                               choke_filter.finish_time)
       IN /\ in_out' = r.out
          /\ choke_filter' = [choke_filter EXCEPT !.finish_time = r.finish]
    /\ UNCHANGED <<loss_filter, reorder_filter, delay_filter, jitter_filter>>

\* one pipe and one Stats, left alone, beside the filters
InitFilters == InitStats

NextFilters ==
    \/ \E class \in StageClasses, list \in SeededLists : Seed(class, list)
    \/ \E percent \in PercentChoices : SetLoss(percent)
    \/ \E percent \in PercentChoices : SetReorder(percent)
    \/ \E delay_ms \in DelayChoices : SetDelay(delay_ms)
    \/ \E stddev_ms \in JitterChoices : SetJitter(stddev_ms)
    \/ \E kbps \in CapacityChoices : SetCapacity(kbps)
    \/ \E max_delay_ms \in MaxDelayChoices : SetMaxDelay(max_delay_ms)
    \/ LossFilterRunFor
    \/ ReorderFilterRunFor
    \/ DelayFilterRunFor
    \/ JitterFilterRunFor
    \/ ChokeFilterRunFor

SpecFilters == InitFilters /\ [][NextFilters]_vars

\* ======================================================= min_max_operations
\* The int16_t functions of common_audio/signal_processing/
\* min_max_operations.c. A vector is NULL or the sequence of its elements
\* (element i of the C array is vector[i + 1]); length is at most the number
\* of elements. int is 32 bits wide, so abs((int)vector[i]) is exact.
\* WEBRTC_SPL_WORD16_MAX and WEBRTC_SPL_WORD16_MIN (signal_processing_library.h)
\* are the ends of int16_t.
WEBRTC_SPL_WORD16_MAX == 32767
WEBRTC_SPL_WORD16_MIN == -32768

\* the conversion (int16_t)x of an int
Int16(x) == ((x - WEBRTC_SPL_WORD16_MIN) % 65536) + WEBRTC_SPL_WORD16_MIN

\* lines 44-50: the loop of WebRtcSpl_MaxAbsValueW16, with i elements done
RECURSIVE MaxAbsLoop(_, _, _, _)
MaxAbsLoop(vector, length, i, maximum) ==
    IF i < length
    THEN LET absolute == Abs(vector[i + 1])
         IN MaxAbsLoop(vector, length, i + 1,
                       IF absolute > maximum THEN absolute ELSE maximum)
    ELSE maximum

\* mutant of WebRtcSpl_MaxAbsValueW16: abs(-32768) is not guarded
WebRtcSpl_MaxAbsValueW16_NoGuard(vector, length) ==
    IF vector = NULL \/ length <= 0 THEN -1
    ELSE Int16(MaxAbsLoop(vector, length, 0, 0))

\* lines 37-58
WebRtcSpl_MaxAbsValueW16(vector, length) ==
    IF vector = NULL \/ length <= 0 THEN -1
    ELSE LET maximum == MaxAbsLoop(vector, length, 0, 0)
         IN Int16(IF maximum > WEBRTC_SPL_WORD16_MAX
                  THEN WEBRTC_SPL_WORD16_MAX
                  ELSE maximum)

\* lines 94-97
RECURSIVE MaxValueLoop(_, _, _, _)
MaxValueLoop(vector, length, i, maximum) ==
    IF i < length
    THEN MaxValueLoop(vector, length, i + 1,
                      IF vector[i + 1] > maximum THEN vector[i + 1]
                                                 ELSE maximum)
    ELSE maximum

\* lines 86-99
WebRtcSpl_MaxValueW16(vector, length) ==
    IF vector = NULL \/ length <= 0 THEN WEBRTC_SPL_WORD16_MIN
    ELSE MaxValueLoop(vector, length, 0, WEBRTC_SPL_WORD16_MIN)

\* lines 130-133
RECURSIVE MinValueLoop(_, _, _, _)
MinValueLoop(vector, length, i, minimum) ==
    IF i < length
    THEN MinValueLoop(vector, length, i + 1,
                      IF vector[i + 1] < minimum THEN vector[i + 1]
                                                 ELSE minimum)
    ELSE minimum

\* lines 122-135
WebRtcSpl_MinValueW16(vector, length) ==
    IF vector = NULL \/ length <= 0 THEN WEBRTC_SPL_WORD16_MAX
    ELSE MinValueLoop(vector, length, 0, WEBRTC_SPL_WORD16_MAX)

\* mutant of MaxIndexLoop: an element equal to the maximum so far takes the
\* index
RECURSIVE MaxIndexLoop_Last(_, _, _, _, _)
MaxIndexLoop_Last(vector, length, i, maximum, index) ==
    IF i < length
    THEN IF vector[i + 1] >= maximum
         THEN MaxIndexLoop_Last(vector, length, i + 1, vector[i + 1], i)
         ELSE MaxIndexLoop_Last(vector, length, i + 1, maximum, index)
    ELSE index

\* lines 186-191
RECURSIVE MaxIndexLoop(_, _, _, _, _)
MaxIndexLoop(vector, length, i, maximum, index) ==
    IF i < length
    THEN IF vector[i + 1] > maximum
         THEN MaxIndexLoop(vector, length, i + 1, vector[i + 1], i)
         ELSE MaxIndexLoop(vector, length, i + 1, maximum, index)
    ELSE index

\* lines 178-194
WebRtcSpl_MaxIndexW16(vector, length) ==
    IF vector = NULL \/ length <= 0 THEN -1
    ELSE MaxIndexLoop(vector, length, 0, WEBRTC_SPL_WORD16_MIN, 0)

\* lines 225-230
RECURSIVE MinIndexLoop(_, _, _, _, _)
MinIndexLoop(vector, length, i, minimum, index) ==
    IF i < length
    THEN IF vector[i + 1] < minimum
         THEN MinIndexLoop(vector, length, i + 1, vector[i + 1], i)
         ELSE MinIndexLoop(vector, length, i + 1, minimum, index)
    ELSE index

\* lines 217-233
WebRtcSpl_MinIndexW16(vector, length) ==
    IF vector = NULL \/ length <= 0 THEN -1
    ELSE MinIndexLoop(vector, length, 0, WEBRTC_SPL_WORD16_MAX, 0)

\* the arguments of a call: NULL or an array of up to MaxVectorLen elements,
\* and a length that is negative, zero, or at most the number of elements
Vectors == UNION {[1..n -> Int16Choices] : n \in 0..MaxVectorLen}
Lengths(vector) == IF vector = NULL THEN {-1, 0, 1} ELSE -1..Len(vector)

Returns(fn, value) ==
    /\ spl_returned' = [fn |-> fn, value |-> value]
    /\ UNCHANGED <<in_vector, in_length, gsmfr, bwe, fake_network_pipe>>

MaxAbsValueW16 ==
    Returns("MaxAbsValueW16", WebRtcSpl_MaxAbsValueW16(in_vector, in_length))
MaxValueW16 ==
    Returns("MaxValueW16", WebRtcSpl_MaxValueW16(in_vector, in_length))
MinValueW16 ==
    Returns("MinValueW16", WebRtcSpl_MinValueW16(in_vector, in_length))
MaxIndexW16 ==
    Returns("MaxIndexW16", WebRtcSpl_MaxIndexW16(in_vector, in_length))
MinIndexW16 ==
    Returns("MinIndexW16", WebRtcSpl_MinIndexW16(in_vector, in_length))

\* one pipe, an accumulator and the filters, left alone, beside a vector
InitSpl ==
    /\ PipeConstructed
    /\ queue_length_ = 1
    /\ queue_delay_ms_ = 0
    /\ link_capacity_kbps = 12
    /\ loss_percent_ = 0
    /\ StatsConstructed
    /\ FiltersConstructed
    /\ CodecConstructed
    /\ in_vector \in {NULL} \cup Vectors
    /\ in_length \in Lengths(in_vector)
    /\ spl_returned = NoCall

NextSpl ==
    \/ MaxAbsValueW16
    \/ MaxValueW16
    \/ MinValueW16
    \/ MaxIndexW16
    \/ MinIndexW16

SpecSpl == InitSpl /\ [][NextSpl]_vars

\* ================================================================ acm_gsmfr
\* ACMGSMFR of modules/audio_coding/main/source/acm_gsmfr.cc, built with
\* WEBRTC_CODEC_GSMFR (lines 154-409). The GSM-FR library is external:
\* WebRtcGSMFR_EncoderInit either fails (a negative status) or sets the mode
\* of the encoder instance. A call is a step.
EncoderInstance == <<"GSMFR_encinst_t_">>
EncoderInitStatus == {-1, 0}

Called(op, value) == codec_calls' = Append(codec_calls, [op |-> op, value |-> value])

\* lines 222-244
EnableDTX ==
    /\ Len(codec_calls) < MaxCodecCalls
    /\ IF _dtxEnabled
       THEN /\ Called("EnableDTX", 0)
            /\ UNCHANGED <<_dtxEnabled, encoder_mode>>
       ELSE IF _encoderExist
       THEN \E status \in EncoderInitStatus :
               IF status < 0
               THEN /\ Called("EnableDTX", -1)
                    /\ UNCHANGED <<_dtxEnabled, encoder_mode>>
               ELSE /\ encoder_mode' = 1
                    /\ _dtxEnabled' = TRUE
                    /\ Called("EnableDTX", 0)
       ELSE /\ Called("EnableDTX", -1)
            /\ UNCHANGED <<_dtxEnabled, encoder_mode>>
    /\ UNCHANGED <<_encoderInstPtr, _encoderExist, _encoderInitialized, spl,
                   bwe, fake_network_pipe>>

\* lines 247-270
DisableDTX ==
    /\ Len(codec_calls) < MaxCodecCalls
    /\ IF ~_dtxEnabled
       THEN /\ Called("DisableDTX", 0)
            /\ UNCHANGED <<_dtxEnabled, encoder_mode>>
       ELSE IF _encoderExist
       THEN \E status \in EncoderInitStatus :
               IF status < 0
               THEN /\ Called("DisableDTX", -1)
                    /\ UNCHANGED <<_dtxEnabled, encoder_mode>>
               ELSE /\ encoder_mode' = 0
                    /\ _dtxEnabled' = FALSE
                    /\ Called("DisableDTX", 0)
       ELSE /\ Called("DisableDTX", 0)
            /\ UNCHANGED <<_dtxEnabled, encoder_mode>>
    /\ UNCHANGED <<_encoderInstPtr, _encoderExist, _encoderInitialized, spl,
                   bwe, fake_network_pipe>>

\* lines 342-352: the instance is freed, and its mode with it
DestructEncoderSafe ==
    /\ Len(codec_calls) < MaxCodecCalls
    /\ _encoderInstPtr' = NULL
    /\ encoder_mode' = IF _encoderInstPtr # NULL THEN -1 ELSE encoder_mode
    /\ _encoderExist' = FALSE
    /\ _encoderInitialized' = FALSE
    /\ Called("DestructEncoderSafe", 0)
    /\ UNCHANGED <<_dtxEnabled, spl, bwe, fake_network_pipe>>

\* a codec before or after its encoder was created (lines 329-339) and
\* initialised with DTX off (lines 273-283), beside the other objects left
\* alone
InitGsmfr ==
    /\ PipeConstructed
    /\ queue_length_ = 1
    /\ queue_delay_ms_ = 0
    /\ link_capacity_kbps = 12
    /\ loss_percent_ = 0
    /\ StatsConstructed
    /\ FiltersConstructed
    /\ NoVector
    /\ _encoderExist \in BOOLEAN
    /\ _encoderInitialized = _encoderExist
    /\ _encoderInstPtr = IF _encoderExist THEN EncoderInstance ELSE NULL
    /\ encoder_mode = IF _encoderExist THEN 0 ELSE -1
    /\ _dtxEnabled = FALSE
    /\ codec_calls = <<>>

NextGsmfr ==
    \/ EnableDTX
    \/ DisableDTX
    \/ DestructEncoderSafe

SpecGsmfr == InitGsmfr /\ [][NextGsmfr]_vars

\* ================================================================= claims
Last(s) == s[Len(s)]
Delivered == {id \in Ids : Last(Path(id)) = "Delivered"}
Rejected == {id \in Ids : Last(Path(id)) = "Dropped"}
InLinks == SeqToSet(capacity_link_) \cup SeqToSet(delay_link_)
Sorted(link) ==
    \A i \in 1..Len(link) - 1 : link[i].arrival_time <= link[i + 1].arrival_time

\* C1: a SendPacket call made while the capacity link already holds at least
\* queue_length_ packets adds exactly one to dropped_packets_ and leaves both
\* links, sent_packets_, total_packet_delay_ and the receiver untouched.
C1_DropOnFullQueue ==
    [][(calls' = calls + 1 /\ Len(capacity_link_) >= queue_length_)
        => /\ dropped_packets_' = dropped_packets_ + 1
           /\ UNCHANGED <<capacity_link_, delay_link_, sent_packets_,
                          total_packet_delay_, receiver>>]_vars

\* a packet was rejected by a pipe whose capacity link holds packets
C1_Witness ==
    /\ dropped_packets_ >= 1
    /\ Len(capacity_link_) >= 1
    /\ Len(capacity_link_) = queue_length_

\* C2: the capacity link never holds more than queue_length_ packets.
C2_CapacityBounded == Len(capacity_link_) <= queue_length_

\* the capacity link is full, after NetworkProcess has run at least once
C2_Witness ==
    /\ queue_length_ = 2
    /\ Len(capacity_link_) = 2
    /\ calls_at_first_process >= 0

C4_PercentageLoss ==
    LET sent == Len(receiver)
        dropped == Cardinality(Rejected)
    IN PercentageLoss = IF sent = 0 THEN Zero ELSE <<dropped, sent + dropped>>

\* packets were both delivered and dropped
C4_Witness ==
    /\ Len(receiver) >= 1
    /\ Cardinality(Rejected) >= 1
    /\ Len(receiver) + Cardinality(Rejected) = 3

\* C5: when the only packet ever sent has been delivered, AverageDelay() is
\* floor(S / floor(C / 8)) + D, however late NetworkProcess ran.
C5_SinglePacketDelay ==
    (calls = 1 /\ Len(receiver) = 1)
        => AverageDelay = (hist[1].length \div (link_capacity_kbps \div 8))
                          + queue_delay_ms_

\* a single 3-byte packet was delivered later than it was due
C5_Witness ==
    /\ calls = 1
    /\ Len(receiver) = 1
    /\ hist[1].length = 3
    /\ hist[1].delivered_at > hist[1].arrival_time + queue_delay_ms_

\* the time a packet was scheduled to leave the delay link: its arrival time
\* computed by SendPacket plus the queue delay
Scheduled(id) == hist[id].arrival_time + queue_delay_ms_

RECURSIVE SumOver(_, _)
SumOver(f, S) ==
    IF S = {} THEN 0
    ELSE LET x == CHOOSE y \in S : TRUE IN f[x] + SumOver(f, S \ {x})

\* C6: AverageDelay() is 0 while nothing was delivered, and otherwise the
\* integer quotient of the sum of (scheduled arrival time - send time) over
\* the delivered packets by their number; the clock value at delivery plays
\* no part.
C6_AverageDelay ==
    LET d == [id \in Delivered |-> Scheduled(id) - hist[id].send_time]
    IN AverageDelay = IF Delivered = {} THEN 0
                      ELSE CDiv(SumOver(d, Delivered), Cardinality(Delivered))

\* two packets were delivered, one of them later than scheduled
C6_Witness ==
    /\ Cardinality(Delivered) >= 2
    /\ \E id \in Delivered : hist[id].delivered_at > Scheduled(id)
    /\ \E id \in Delivered : Scheduled(id) - hist[id].send_time > 0

\* C7: every packet held in either link has arrival_time >= send_time.
C7_ArrivalNotBeforeSend ==
    \A packet \in InLinks : packet.arrival_time >= packet.send_time

\* C8: each link is non-decreasing in arrival_time from head to tail.
C8_LinksSorted == Sorted(capacity_link_) /\ Sorted(delay_link_)

\* the delay link holds a packet and the capacity link two packets of
\* different arrival times
C8_Witness ==
    /\ Len(delay_link_) >= 1
    /\ Len(capacity_link_) = 2
    /\ capacity_link_[1].arrival_time < capacity_link_[2].arrival_time

\* the paths a packet may have taken so far
PacketPaths ==
    {<<"Injected", "QueuedForCapacity">>,
     <<"Injected", "QueuedForCapacity", "QueuedForDelay">>,
     <<"Injected", "QueuedForCapacity", "QueuedForDelay", "Delivered">>,
     <<"Injected", "Dropped">>}

IsPrefix(s, t) == Len(s) <= Len(t) /\ \A i \in 1..Len(s) : s[i] = t[i]

\* a packet's path is one of the four, and says where the packet is: in the
\* capacity link, in the delay link, or handed to the receiver exactly once
PathInv ==
    \A id \in Ids :
        /\ Path(id) \in PacketPaths
        /\ Last(Path(id)) = "QueuedForCapacity" <=> id \in DataOf(capacity_link_)
        /\ Last(Path(id)) = "QueuedForDelay" <=> id \in DataOf(delay_link_)
        /\ Cardinality({i \in 1..Len(receiver) : receiver[i][1] = id})
             = IF Last(Path(id)) = "Delivered" THEN 1 ELSE 0

\* a path only grows, Delivered and Dropped end it, and a packet is dropped
\* only by a SendPacket call that finds the capacity link full
PathStep ==
    /\ \A id \in Ids :
        /\ IsPrefix(Path(id), hist'[id].path)
        /\ Last(Path(id)) \in {"Delivered", "Dropped"} => hist'[id] = hist[id]
    /\ calls' = calls + 1 =>
        (Last(hist'[calls + 1].path) = "Dropped"
            => Len(capacity_link_) >= queue_length_)

\* C9: every packet follows Injected -> QueuedForCapacity -> QueuedForDelay
\* -> Delivered or Injected -> Dropped; Dropped is entered only from
\* Injected and only when the capacity link is full; Delivered and Dropped
\* are terminal.
C9_PacketStateMachine == []PathInv /\ [][PathStep]_vars

\* one packet went the whole way and another was dropped
C9_Witness ==
    /\ \E id \in Ids : Len(Path(id)) = 4
    /\ \E id \in Ids : Last(Path(id)) = "Dropped"
    /\ \E id \in Ids : Last(Path(id)) = "QueuedForDelay"

\* a thread is between taking link_cs_ and releasing it
InBody(t) == pc[t] \notin {"idle", "enter"}

\* what the call of thread t, run alone on the pipe it found on entry, leaves
\* and returns
SerialState(t) ==
    CASE Local(t).op = "SendPacket" ->
             AfterSendPacket(Local(t).entry, Local(t).data,
                             Local(t).data_length, Local(t).time_now)
      [] Local(t).op = "NetworkProcess" ->
             AfterNetworkProcess(Local(t).entry, Local(t).time_now)
      [] OTHER -> Local(t).entry

SerialResult(t) ==
    CASE Local(t).op = "PercentageLoss" -> PercentageLossOf(Local(t).entry)
      [] Local(t).op = "AverageDelay" -> AverageDelayOf(Local(t).entry)
      [] OTHER -> <<>>

\* C10: a thread is inside a method body only while it owns link_cs_, so at
\* most one is; and when a call is about to return, the pipe and the value
\* returned are those of the call run alone on the pipe it found when it
\* took the lock: the calls take effect one after the other, in the order in
\* which they took the lock.
C10_Serializable ==
    /\ \A t \in Threads : InBody(t) => link_cs_ = t
    /\ \A t \in Threads :
           At(t, "leave") => /\ PipeState = SerialState(t)
                             /\ Local(t).result = SerialResult(t)

\* the producer waits for the lock while NetworkProcess has delivered a
\* packet and not yet counted it
C10_Witness ==
    /\ At("producer", "enter")
    /\ At("poller", "NetworkProcess_sent")
    /\ sent_packets_ >= 1

\* C11 as stated: a pipe given a non-positive link capacity or a non-positive
\* queue length is not constructed, and SendPacket never runs on it.
C11_BadConfigFailsFast ==
    (link_capacity_kbps <= 0 \/ queue_length_ <= 0)
        => (~constructed /\ calls = 0)

\* C12 as stated: once a packet is delivered, the copy of its data that
\* SendPacket allocated is no longer allocated.
C12_BufferReleased == \A id \in Delivered : id \notin allocated


\* the accumulator after the samples of data were pushed in one batch, no
\* getter called in between
RECURSIVE OneBatch(_, _)
OneBatch(st, data) ==
    IF data = <<>> THEN st ELSE OneBatch(AfterPush(st, Head(data)), Tail(data))

\* the orders in which the samples pushed so far can be pushed
Reorderings ==
    {[i \in 1..Len(data_) |-> data_[p[i]]] : p \in Permutations(1..Len(data_))}

\* C13: whatever the batches the samples were pushed in and whatever getters
\* were called between them, the value a getter returns is the value it
\* returns on an accumulator into which the same samples, in any order, were
\* pushed in one batch.
C13_BatchesAgree ==
    \A data \in Reorderings :
        LET one == OneBatch(StatsNew, data)
        IN /\ returned.op = "GetMean"
                => returned.value = AfterGetMean(one).mean_
           /\ returned.op = "GetVariance"
                => returned.value = AfterGetVariance(one).variance_
           /\ returned.op = "GetMin"
                => returned.value = RefreshMinMax(one).min_
           /\ returned.op = "GetMax"
                => returned.value = RefreshMinMax(one).max_

\* the mean, the variance and the extremes were read after a first batch of
\* one sample, two more samples were pushed, and the variance is read again
C13_Witness ==
    /\ returned.op = "GetVariance"
    /\ Len(data_) = 3
    /\ data_[1] # data_[2] /\ data_[2] # data_[3] /\ data_[1] # data_[3]
    /\ last_minmax_count_ = 1
    /\ variance_ # Zero

\* every packet of list a is in list b, at most one place nearer the front
AdjacentSwapsOnly(a, b) ==
    /\ Len(b) = Len(a)
    /\ \A i \in 1..Len(a) : \E j \in 1..Len(b) : b[j] = a[i] /\ j >= i - 1

C15_DelayMonotone ==
    last_run.stage \in {"Delay", "Jitter"} =>
        LET input == last_run.input
            before == last_run.filter
            now_last == IF last_run.stage = "Delay"
                        THEN delay_filter.last_emitted_send_time
                        ELSE jitter_filter.last_emitted_send_time
            Previous(i) == IF i = 1 THEN before.last_emitted_send_time
                           ELSE in_out[i - 1].send_time
            Delays == IF last_run.stage = "Delay" THEN {before.delay}
                      ELSE {g * before.stddev : g \in GaussianChoices}
        IN /\ Len(in_out) = Len(input)
           /\ \A i \in 1..Len(in_out) :
                  /\ in_out[i].send_time >= Previous(i)
                  /\ \E d \in Delays :
                         in_out[i].send_time
                             = Max(Previous(i), input[i].send_time + d)
           /\ now_last = Previous(Len(in_out) + 1)

\* a JitterFilter ran at least twice and emitted a packet at the last emitted
\* time, later than its own time plus any draw
C15_Witness ==
    /\ last_run.stage = "Jitter"
    /\ runs >= 2
    /\ last_run.filter.stddev > 0
    /\ \E i \in 1..Len(in_out) :
           in_out[i].send_time
               > last_run.input[i].send_time + last_run.filter.stddev

\* C16: a ChokeFilter RunFor keeps the packets in order; a kept packet is sent
\* at max(its original send_time, finish time of the packet served before
\* it) and waited at most max_delay_ms; a packet is dropped exactly when that
\* wait would exceed max_delay_ms.
C16_ChokeDelayBound ==
    last_run.stage = "Choke" =>
        LET input == last_run.input
            before == last_run.filter
            Service(packet) == packet.payload_size \div (before.kbps \div 8)
            \* the finish time of the packet served before place j of in_out
            Finish(j) == IF j = 1 THEN before.finish_time
                         ELSE in_out[j - 1].send_time + Service(in_out[j - 1])
            Place(id) == CHOOSE i \in 1..Len(input) : input[i].id = id
            Kept == {in_out[j].id : j \in 1..Len(in_out)}
            \* the packets of in_out that stood before place i of the input
            KeptBefore(i) ==
                Cardinality({j \in 1..Len(in_out) : Place(in_out[j].id) < i})
        IN /\ Kept \subseteq {input[i].id : i \in 1..Len(input)}
           /\ \A j \in 1..Len(in_out) - 1 :
                  Place(in_out[j].id) < Place(in_out[j + 1].id)
           /\ \A j \in 1..Len(in_out) :
                  LET original == input[Place(in_out[j].id)]
                  IN /\ in_out[j].send_time
                            = Max(original.send_time, Finish(j))
                     /\ in_out[j].send_time - original.send_time
                            <= before.max_delay_ms
                     /\ in_out[j].payload_size = original.payload_size
           /\ \A i \in 1..Len(input) :
                  input[i].id \notin Kept
                      => Max(input[i].send_time, Finish(KeptBefore(i) + 1))
                             - input[i].send_time > before.max_delay_ms
           /\ choke_filter.finish_time = Finish(Len(in_out) + 1)

\* a ChokeFilter with a positive max delay kept a packet it had to hold back
\* and dropped another
C16_Witness ==
    /\ last_run.stage = "Choke"
    /\ last_run.filter.max_delay_ms > 0
    /\ Len(in_out) < Len(last_run.input)
    /\ \E j \in 1..Len(in_out) : \E i \in 1..Len(last_run.input) :
           /\ last_run.input[i].id = in_out[j].id
           /\ in_out[j].send_time > last_run.input[i].send_time

\* C17 as stated: a packet accepted at clock value now gets arrival_time
\* max(now, arrival_time of the capacity link's tail) + floor(length /
\* link_capacity_bytes_ms_), the tail term absent when the link is empty.
C17_ArrivalTime ==
    [][(calls' = calls + 1 /\ Len(capacity_link_) < queue_length_)
        => Last(capacity_link_').arrival_time
             = (IF Len(capacity_link_) = 0 THEN now
                ELSE Max(now, Last(capacity_link_).arrival_time))
               + (hist'[calls + 1].length \div link_capacity_bytes_ms_)]_vars

RECURSIVE SumSeq(_)
SumSeq(q) == IF q = <<>> THEN 0 ELSE Head(q) + SumSeq(Tail(q))

\* C18: a NetworkProcess call made in any reachable state at clock value now
\* returns with each link empty or its head not yet due; the packets it took
\* off the capacity link went through the delay link with arrival_time
\* increased by exactly queue_delay_ms_; and each packet it delivered added
\* one to sent_packets_ and (arrival_time - send_time) to total_packet_delay_.
C18_NetworkProcessResult ==
    constructed =>
    LET s == PipeState
        t == AfterNetworkProcess(s, now)
        moved == Len(s.capacity_link_) - Len(t.capacity_link_)
        delivered == Len(t.receiver) - Len(s.receiver)
        through == s.delay_link_ \o
                   [i \in 1..moved |->
                       [s.capacity_link_[i] EXCEPT
                            !.arrival_time = @ + queue_delay_ms_]]
    IN /\ Len(t.capacity_link_) = 0 \/ Head(t.capacity_link_).arrival_time > now
       /\ Len(t.delay_link_) = 0 \/ Head(t.delay_link_).arrival_time > now
       /\ moved >= 0 /\ delivered >= 0 /\ delivered <= Len(through)
       /\ t.capacity_link_ = SubSeq(s.capacity_link_, moved + 1, Len(s.capacity_link_))
       /\ t.delay_link_ = SubSeq(through, delivered + 1, Len(through))
       /\ t.sent_packets_ = s.sent_packets_ + delivered
       /\ t.total_packet_delay_ = s.total_packet_delay_
              + SumSeq([i \in 1..delivered |->
                          through[i].arrival_time - through[i].send_time])
       /\ t.dropped_packets_ = s.dropped_packets_

\* NetworkProcess has just delivered a packet, put another in the delay link
\* and left a third in the capacity link
C18_Witness ==
    /\ \E id \in Ids : hist[id].delivered_at = now
    /\ Len(delay_link_) >= 1
    /\ Len(capacity_link_) >= 1
    /\ PipeState = AfterNetworkProcess(PipeState, now)

\* the calls whose packet SendPacket accepted, in the order of the calls
Accepted ==
    LET Kept(id) == Path(id)[2] # "Dropped"
    IN SelectSeq([id \in 1..Len(hist) |-> id], Kept)

\* C19: the receiver was handed the accepted packets in the order SendPacket
\* accepted them, each at most once and with its length: its log is a prefix
\* of the accepted packets.
C19_FifoDelivery ==
    /\ Len(receiver) <= Len(Accepted)
    /\ \A i \in 1..Len(receiver) :
           receiver[i] = <<Accepted[i], hist[Accepted[i]].length>>

\* two packets were delivered, a 3-byte one last, and a packet sent between
\* them was dropped
C19_Witness ==
    /\ Len(receiver) = 2
    /\ receiver[2][2] = 3
    /\ \E id \in Rejected : receiver[1][1] < id /\ id < receiver[2][1]

\* the accepted packets whose delivery time lies within the clock's range are
\* all delivered
AllDelivered ==
    \A id \in Ids :
        (Last(Path(id)) # "Dropped" /\ Scheduled(id) <= MaxTime)
            => Last(Path(id)) = "Delivered"

\* C20: with NetworkProcess called again and again and the clock running,
\* every accepted packet scheduled within the clock's range is eventually
\* delivered (and stays so); and the receiver is handed a packet only by a
\* NetworkProcess step.
C20_EventuallyDelivered ==
    /\ <>[]AllDelivered
    /\ [][receiver' # receiver => NetworkProcess]_vars

\* a packet scheduled for the last clock value was delivered
C20_Witness ==
    \E id \in Delivered : Scheduled(id) = MaxTime /\ hist[id].send_time < MaxTime

\* C21: in every reachable state the number of SendPacket calls made so far
\* is dropped_packets_ plus the sizes of the capacity link and of the delay
\* link plus sent_packets_: no packet is lost or counted twice.
C21_Conservation ==
    calls = dropped_packets_ + Len(capacity_link_) + Len(delay_link_)
                + sent_packets_

\* one packet was dropped, one waits in the delay link and one was sent
C21_Witness ==
    /\ calls = 3
    /\ dropped_packets_ = 1
    /\ Len(delay_link_) = 1
    /\ sent_packets_ = 1

\* C22: no packet is delivered early. A packet the receiver was handed at
\* clock value delivered_at has delivered_at >= the arrival time SendPacket
\* gave it on the capacity link + queue_delay_ms_; and a packet that a step
\* takes from the capacity link to the receiver (through both links in one
\* NetworkProcess call) meets that bound at the clock of the call.
NotEarly ==
    \A id \in Delivered : hist[id].delivered_at >= Scheduled(id)

ThroughBothLinks(id) ==
    /\ id \in DataOf(capacity_link_)
    /\ id \in {receiver'[i][1] : i \in 1..Len(receiver')}

C22_NoEarlyDelivery ==
    /\ []NotEarly
    /\ [][\A id \in Ids : ThroughBothLinks(id) => now >= Scheduled(id)]_vars

\* a packet was held back by the links: it was sent at 0, is delivered at 3,
\* not before it was due, and with a positive queue delay
C22_Witness ==
    /\ queue_delay_ms_ > 0
    /\ \E id \in Delivered :
           /\ hist[id].send_time = 0
           /\ hist[id].delivered_at = Scheduled(id)
           /\ Scheduled(id) = 3

\* C23: the loss_percent constructor argument has no effect. Two pipes that
\* differ only in loss_percent_ and are given the same SendPacket and
\* NetworkProcess calls at the same clock values have, after every call, the
\* same links, the same count of dropped packets, the same packets handed to
\* the receiver, and report the same PercentageLoss and AverageDelay; and a
\* SendPacket call drops its packet if and only if it finds the capacity
\* link full (queue_length_ packets in it), on either pipe.
TwinsAgree ==
    /\ twin.loss_percent_ # loss_percent_
    /\ twin.capacity_link_ = capacity_link_
    /\ twin.delay_link_ = delay_link_
    /\ twin.dropped_packets_ = dropped_packets_
    /\ twin.sent_packets_ = sent_packets_
    /\ twin.receiver = receiver
    /\ PercentageLossOf(twin) = PercentageLoss
    /\ AverageDelayOf(twin) = AverageDelay

DroppedIffFull ==
    /\ calls' = calls + 1 =>
           /\ dropped_packets_' = dropped_packets_ + 1
                  <=> Len(capacity_link_) >= queue_length_
           /\ twin'.dropped_packets_ = twin.dropped_packets_ + 1
                  <=> Len(twin.capacity_link_) >= queue_length_
           /\ dropped_packets_' \in {dropped_packets_, dropped_packets_ + 1}
    /\ calls' = calls =>
           /\ dropped_packets_' = dropped_packets_
           /\ twin'.dropped_packets_ = twin.dropped_packets_

C23_LossPercentUnused == []TwinsAgree /\ [][DroppedIffFull]_vars

\* both pipes, one of them constructed with loss_percent 50, accepted three
\* packets, delivered two of them and have the third in a link
C23_Witness ==
    /\ 50 \in {loss_percent_, twin.loss_percent_}
    /\ twin.loss_percent_ # loss_percent_
    /\ calls = 3
    /\ dropped_packets_ = 0
    /\ Len(receiver) = 2
    /\ Len(twin.receiver) = 2

\* the mean, the population variance and the least and greatest of a
\* sequence of samples; of no samples, zero
Indices(data) == 1..Len(data)
\* a common denominator of the samples, and the samples and their sum in
\* that unit
RECURSIVE CommonDenominator(_)
CommonDenominator(data) ==
    IF data = <<>> THEN 1 ELSE Head(data)[2] * CommonDenominator(Tail(data))
InUnits(data) ==
    [i \in Indices(data) |->
        data[i][1] * (CommonDenominator(data) \div data[i][2])]
SumOfSamples(data) == SumOver(InUnits(data), Indices(data))
MeanOfSamples(data) ==
    IF data = <<>> THEN Zero
    ELSE <<SumOfSamples(data), CommonDenominator(data) * Len(data)>>
VarianceOfSamples(data) ==
    IF data = <<>> THEN Zero
    ELSE LET n == Len(data)
             \* n times the distance of sample i from the mean
             dev == [i \in Indices(data) |->
                        n * InUnits(data)[i] - SumOfSamples(data)]
             unit == CommonDenominator(data) * n
         IN <<SumOver([i \in Indices(data) |-> dev[i] * dev[i]],
                      Indices(data)),
              unit * unit * n>>
LeastOfSamples(data) ==
    IF data = <<>> THEN Zero
    ELSE CHOOSE m \in SeqToSet(data) : \A x \in SeqToSet(data) : ~FLess(x, m)
GreatestOfSamples(data) ==
    IF data = <<>> THEN Zero
    ELSE CHOOSE m \in SeqToSet(data) : \A x \in SeqToSet(data) : ~FLess(m, x)

\* C24: after any interleaving of Push and getter calls, what GetMean,
\* GetVariance, GetMin and GetMax return is the mean, the population
\* variance (the squared distances from the mean, divided by the number of
\* samples), the least and the greatest of all the samples pushed so far: no
\* cached value is returned stale after a Push, also when GetVariance
\* refreshed the mean cache.
C24_GettersCurrent ==
    /\ returned.op = "GetMean"
           => FracEq(returned.value, MeanOfSamples(data_))
    /\ returned.op = "GetVariance"
           => FracEq(returned.value, VarianceOfSamples(data_))
    /\ returned.op = "GetMin"
           => FracEq(returned.value, LeastOfSamples(data_))
    /\ returned.op = "GetMax"
           => FracEq(returned.value, GreatestOfSamples(data_))

\* GetVariance refreshed both caches, a sample was pushed that moves the
\* mean, and GetMean returned
C24_Witness ==
    /\ returned.op = "GetMean"
    /\ last_variance_count_ > 0
    /\ last_variance_count_ < Len(data_)
    /\ ~FracEq(returned.value,
               MeanOfSamples(SubSeq(data_, 1, last_variance_count_)))

\* a getter returned, a sample was pushed that moves the mean and the
\* variance, and GetVariance returned a positive variance
C24_WitnessVariance ==
    /\ returned.op = "GetVariance"
    /\ Len(data_) = 3
    /\ FLess(Zero, returned.value)
    /\ ~FracEq(returned.value, VarianceOfSamples(SubSeq(data_, 1, 2)))

\* C25: neither assert(last_mean_count_ != 0) nor
\* assert(last_variance_count_ != 0) fails in a reachable state, and a getter
\* called on an accumulator with no samples returns 0.
C25_AssertionsHold ==
    /\ ~assertion_failed
    /\ (data_ = <<>> /\ returned.op # "none") => returned.value = Zero

\* GetVariance, which calls GetMean, returned on an accumulator with no
\* samples
C25_Witness ==
    /\ data_ = <<>>
    /\ returned.op = "GetVariance"

\* the elements a call may read
Elements == {in_vector[i] : i \in 1..in_length}
ValidInput == in_vector # NULL /\ in_length > 0
Greatest(S) == CHOOSE x \in S : \A y \in S : y <= x
Least(S) == CHOOSE x \in S : \A y \in S : x <= y

\* C26: WebRtcSpl_MaxAbsValueW16 returns -1 for a NULL vector or a length
\* <= 0; otherwise it returns the greatest |vector[i]|, or 32767 when that
\* is greater (an element is -32768), so a value within 0..32767.
C26_MaxAbsValue ==
    spl_returned.fn = "MaxAbsValueW16" =>
        IF ValidInput
        THEN LET greatest == Greatest({Abs(x) : x \in Elements})
             IN /\ spl_returned.value =
                       IF greatest > 32767 THEN 32767 ELSE greatest
                /\ spl_returned.value \in 0..32767
        ELSE spl_returned.value = -1

\* the function returned 32767 for a vector whose greatest absolute value
\* is that of -32768
C26_Witness ==
    /\ spl_returned.fn = "MaxAbsValueW16"
    /\ ValidInput
    /\ -32768 \in Elements
    /\ 32767 \notin Elements
    /\ spl_returned.value = 32767

\* C27: for a vector of length > 0, WebRtcSpl_MaxIndexW16 (MinIndexW16)
\* returns the lowest index at which the greatest (least) element stands, and
\* the element at that index is what WebRtcSpl_MaxValueW16 (MinValueW16)
\* returns, also when all elements are -32768 or all are 32767; for a NULL
\* vector or a length <= 0 both index functions return -1.
LowestIndexOf(x) ==
    Least({i \in 0..in_length - 1 : in_vector[i + 1] = x})

C27_IndexOfExtreme ==
    /\ spl_returned.fn = "MaxIndexW16" =>
           IF ValidInput
           THEN /\ spl_returned.value = LowestIndexOf(Greatest(Elements))
                /\ in_vector[spl_returned.value + 1] =
                       WebRtcSpl_MaxValueW16(in_vector, in_length)
           ELSE spl_returned.value = -1
    /\ spl_returned.fn = "MinIndexW16" =>
           IF ValidInput
           THEN /\ spl_returned.value = LowestIndexOf(Least(Elements))
                /\ in_vector[spl_returned.value + 1] =
                       WebRtcSpl_MinValueW16(in_vector, in_length)
           ELSE spl_returned.value = -1
    /\ (spl_returned.fn = "MaxValueW16" /\ ValidInput) =>
           spl_returned.value = Greatest(Elements)
    /\ (spl_returned.fn = "MinValueW16" /\ ValidInput) =>
           spl_returned.value = Least(Elements)

\* the greatest element stands at indices 1 and 2 and not at index 0, and
\* MaxIndexW16 returned 1
C27_Witness ==
    /\ spl_returned.fn = "MaxIndexW16"
    /\ in_length = 3
    /\ in_vector[2] = in_vector[3]
    /\ in_vector[1] < in_vector[2]
    /\ spl_returned.value = 1

\* all elements are -32768 and MaxIndexW16 returned 0; all are 32767 and
\* MinIndexW16 returned 0
C27_WitnessAllLeast ==
    /\ spl_returned.fn = "MaxIndexW16"
    /\ in_length = 2
    /\ Elements = {-32768}
    /\ spl_returned.value = 0

C27_WitnessAllGreatest ==
    /\ spl_returned.fn = "MinIndexW16"
    /\ in_length = 2
    /\ Elements = {32767}
    /\ spl_returned.value = 0

\* C28 as stated: after any sequence of EnableDTX, DisableDTX and
\* DestructEncoderSafe calls, a DisableDTX call that returned 0 leaves
\* _dtxEnabled false, and _dtxEnabled is true only while an encoder exists.
\* DestructEncoderSafe leaves _dtxEnabled as it was, and DisableDTX then
\* returns 0 without clearing it.
DisableDTXSucceeded ==
    /\ codec_calls # <<>>
    /\ Last(codec_calls) = [op |-> "DisableDTX", value |-> 0]

C28_DtxFollowsEncoder ==
    /\ DisableDTXSucceeded => ~_dtxEnabled
    /\ _dtxEnabled => _encoderExist

\* the two halves of C28, each alone
C28_DisableDisables == DisableDTXSucceeded => ~_dtxEnabled
C28_EnabledOnlyWithEncoder == _dtxEnabled => _encoderExist

====
